---- MODULE Spec2Model ----
(***************************************************************************)
(* Verification model of chemex (CEST fitting slice):                      *)
(*   - chemex/fitting.py: run_fit and find_independent_clusters            *)
(*   - chemex/experiments/cest/iph/3st_fast.py: Profile                    *)
(*   - chemex/bases/{two_state,three_state}/exchange_model.py              *)
(*   - chemex/experiments/cest/plotting.py: sigma_estimator, group_data    *)
(*                                                                         *)
(* lmfit Parameter objects are mutable and shared by reference, so the     *)
(* fit part keeps an explicit heap of Parameter objects: a collection      *)
(* (lmfit.Parameters) is a mapping from parameter name to object id.       *)
(***************************************************************************)
EXTENDS Integers, Sequences, FiniteSets, TLC

VARIABLES
    \* ---- fitting.py -------------------------------------------------
    fit_config,   \* the configured plan: sequence of sections (name -> vary)
    sections,     \* fit_config.sections() after line 22-23
    data,         \* the dataset: sequence of profiles (their map_names values)
    params,       \* the global collection: name -> object id
    heap,         \* Parameter objects: id -> [value, vary]
    clusters,     \* independent_clusters of the current stage
    pc,           \* position inside run_fit
    stage,        \* index of the current section (1-based)
    idx,          \* index of the current cluster in the loop of line 38
    calls,        \* log of lf.minimize calls and merges
    \* ---- experiments/cest/iph/3st_fast.py: one Profile ---------------
    b1_offsets,           \* self.b1_offsets (Hz)
    val,                  \* self.val
    err,                  \* self.err
    on_resonance_filter,  \* self.on_resonance_filter (Hz)
    carrier,              \* self.carrier (ppm)
    ppm_to_hz,            \* self.ppm_to_rads / (2 pi)
    cache,                \* the lru_cache of _calculate_profile, least recent first
    status,               \* "ok", or "aborted" once an error has left a call
    last,                 \* the last call on the profile: arguments, state before, result
    \* ---- bases/{two_state,three_state}/exchange_model.py -------------
    builder,      \* which update_params is called: "2st" or "3st"
    call,         \* the arguments of the call (model, temperature, p_total, l_total)
    params0,      \* the caller's collection before the call: full name -> Parameter
    map_names0,   \* the caller's mapping before the call: short name -> full name
    bparams,      \* the collection (after the call: the one returned)
    map_names,    \* the mapping (after the call: the one returned)
    warned,       \* the warning of lines 19-21 / 27-29 was printed
    bpc,          \* "new", "returned", "raised", "evaluated" or "formula"
    \* ---- experiments/cest/plotting.py ---------------------------------
    sample,       \* the argument x of sigma_estimator
    sigma,        \* its result
    dataset,      \* the argument of group_data: profiles in dataset order
    data_grouped, \* its result: peak -> profile
    ppc           \* "new", "estimated" or "grouped"

fitVars == <<fit_config, sections, data, params, heap, clusters, pc, stage, idx, calls>>

profVars == <<b1_offsets, val, err, on_resonance_filter, carrier, ppm_to_hz, cache, status, last>>

modelVars == <<builder, call, params0, map_names0, bparams, map_names, warned, bpc>>

plotVars == <<sample, sigma, dataset, data_grouped, ppc>>

vars == <<fitVars, profVars, modelVars, plotVars>>

-----------------------------------------------------------------------------
(* Bounds *)

MaxProfiles == 3
MaxSections == 1

(* Parameter names of the global collection, in a fixed order. *)
NameSeq == <<"a", "b", "c">>
Names == {NameSeq[i] : i \in 1..Len(NameSeq)}

(* profile.map_names.values(): the parameter names one profile refers to *)
ProfileMaps == {S \in SUBSET Names : S # {} /\ Cardinality(S) <= 2}

(* the items of one plan section: vary overrides for some parameters *)
Overrides == {<<>>} \cup {[n \in {NameSeq[1]} |-> b] : b \in BOOLEAN}

SeqsUpTo(S, n) == UNION {[1..k -> S] : k \in 0..n}

(* the configured plans: up to MaxSections sections, and two plans of two  *)
(* sections that set the same parameter in opposite ways                   *)
Plans ==
    SeqsUpTo(Overrides, MaxSections)
        \cup {<<[n \in {NameSeq[1]} |-> b], [n \in {NameSeq[1]} |-> ~b]>> : b \in BOOLEAN}

-----------------------------------------------------------------------------
(* Helpers on mappings *)

Range(f) == {f[x] : x \in DOMAIN f}

Min(S) == CHOOSE x \in S : \A y \in S : x <= y

(* position of a name in NameSeq: the order in which copies are allocated *)
NameIndex(n) == CHOOSE i \in 1..Len(NameSeq) : NameSeq[i] = n

(* dict.update: entries of g overwrite and extend those of f *)
Update(f, g) == [n \in (DOMAIN f) \cup (DOMAIN g) |-> IF n \in DOMAIN g THEN g[n] ELSE f[n]]

-----------------------------------------------------------------------------
(* Each specification runs one component; the others stay as constructed.  *)

NoCall == [op |-> "none", key |-> <<>>, alt |-> <<>>, pre |-> <<>>, repeat |-> FALSE,
           removed_before |-> 0, computed |-> FALSE, core |-> <<>>, values |-> <<>>, scale |-> <<>>,
           raised |-> FALSE]

ProfileIdle ==
    /\ b1_offsets = <<>>
    /\ val = <<>>
    /\ err = <<>>
    /\ on_resonance_filter = 0
    /\ carrier = 0
    /\ ppm_to_hz = 0
    /\ cache = <<>>
    /\ status = "ok"
    /\ last = NoCall

ModelIdle ==
    /\ builder = "none"
    /\ call = <<>>
    /\ params0 = <<>>
    /\ map_names0 = <<>>
    /\ bparams = <<>>
    /\ map_names = <<>>
    /\ warned = FALSE
    /\ bpc = "idle"

PlotIdle ==
    /\ sample = <<>>
    /\ sigma = <<0, 0>>
    /\ dataset = <<>>
    /\ data_grouped = <<>>
    /\ ppc = "idle"

FitIdle ==
    /\ fit_config = <<>>
    /\ sections = <<>>
    /\ data = <<>>
    /\ params = <<>>
    /\ heap = <<>>
    /\ clusters = <<>>
    /\ pc = "idle"
    /\ stage = 0
    /\ idx = 0
    /\ calls = <<>>

-----------------------------------------------------------------------------
(* chemex.parameters.set_param_status(params, items): sets the vary flag   *)
(* of the named parameters, in place.                                      *)
SetParamStatus(hp, ps, items) ==
    [o \in DOMAIN hp |->
        IF \E n \in DOMAIN items : ps[n] = o
        THEN [hp[o] EXCEPT !.vary = items[CHOOSE n \in DOMAIN items : ps[n] = o]]
        ELSE hp[o]]

-----------------------------------------------------------------------------
(* find_independent_clusters *)

(* lines 80-82: the profile's parameters, by reference to the global objects *)
ParamsProfile(names, ps) == [n \in names |-> ps[n]]

(* lines 86-92: the names of a collection whose parameter has vary set *)
FitNames(coll, hp) == {n \in DOMAIN coll : hp[coll[n]].vary}

(* line 94 *)
IntersectsAllNames(pp, cp, hp) == (DOMAIN pp) \cap (DOMAIN cp) # {}
Intersects(pp, cp, hp) == FitNames(pp, hp) \cap FitNames(cp, hp) # {}

(* line 101: copy.deepcopy allocates one new object per entry *)
CopyIds(pp, hp) ==
    [n \in DOMAIN pp |-> Len(hp) + Cardinality({m \in DOMAIN pp : NameIndex(m) <= NameIndex(n)})]

CopyHeap(pp, hp) ==
    [o \in 1..(Len(hp) + Cardinality(DOMAIN pp)) |->
        IF o <= Len(hp) THEN hp[o]
        ELSE hp[pp[CHOOSE n \in DOMAIN pp : CopyIds(pp, hp)[n] = o]]]

(* line 96: params_cluster.update(params_profile) *)
JoinParamsSkipped(cp, pp) == cp
JoinParams(cp, pp) == Update(cp, pp)

(* lines 84-102 for one profile i: join the first intersecting cluster, or *)
(* start a new one with a deep copy of the profile's parameters            *)
AddProfile(i, st, ps) ==
    LET pp == ParamsProfile(data[i], ps)
        hits == {j \in 1..Len(st.clusters) : Intersects(pp, st.clusters[j].cparams, st.heap)}
    IN  IF hits # {}
        THEN LET j == Min(hits)
             IN [clusters |-> [st.clusters EXCEPT ![j] =
                                  [data |-> Append(@.data, i),
                                   cparams |-> JoinParams(@.cparams, pp)]],
                 heap |-> st.heap]
        ELSE [clusters |-> Append(st.clusters,
                                  [data |-> <<i>>, cparams |-> CopyIds(pp, st.heap)]),
              heap |-> CopyHeap(pp, st.heap)]

RECURSIVE ClusterLoop(_, _, _)
ClusterLoop(i, st, ps) ==
    IF i > Len(data) THEN st ELSE ClusterLoop(i + 1, AddProfile(i, st, ps), ps)

(* lines 76-104 *)
find_independent_clusters(ps, hp) == ClusterLoop(1, [clusters |-> <<>>, heap |-> hp], ps)

-----------------------------------------------------------------------------
(* lf.minimize(func, coll, args): fits in place; every varying parameter   *)
(* of the collection receives the value found by this call.  The value is  *)
(* the ordinal of the call, so that each write can be traced to its call.  *)
CallNo == Cardinality({k \in 1..Len(calls) : calls[k].op = "minimize"}) + 1

Minimize(coll, hp) ==
    [o \in DOMAIN hp |->
        IF o \in Range(coll) /\ hp[o].vary THEN [hp[o] EXCEPT !.value = CallNo] ELSE hp[o]]

-----------------------------------------------------------------------------
(* run_fit *)

(* lines 22-23 *)
EffectiveSectionsAdded(cfg) == Append(cfg, <<>>)
EffectiveSections(cfg) == IF cfg = <<>> THEN << <<>> >> ELSE cfg

(* line 36 *)
UseClustersAlways(k) == k >= 1
UseClusters(k) == k > 1

ReadConfig ==
    /\ pc = "start"
    /\ sections' = EffectiveSections(fit_config)
    /\ stage' = 1
    /\ pc' = "stage"
    /\ UNCHANGED <<fit_config, data, params, heap, clusters, idx, calls, profVars, modelVars, plotVars>>

(* lines 27-36: one iteration of the loop over sections up to the branch *)
BeginStage ==
    /\ pc = "stage"
    /\ LET hp1 == SetParamStatus(heap, params, sections[stage])
           found == find_independent_clusters(params, hp1)
       IN /\ heap' = found.heap
          /\ clusters' = found.clusters
          /\ pc' = IF UseClusters(Len(found.clusters)) THEN "local" ELSE "joint"
    /\ idx' = 1
    /\ UNCHANGED <<fit_config, sections, data, params, stage, calls, profVars, modelVars, plotVars>>

(* lines 42-47 *)
ClusterMinimize ==
    /\ pc = "local"
    /\ heap' = Minimize(clusters[idx].cparams, heap)
    /\ calls' = Append(calls, [op |-> "minimize", scope |-> "cluster", stage |-> stage,
                               idx |-> idx, data |-> clusters[idx].data,
                               names |-> DOMAIN clusters[idx].cparams])
    /\ pc' = "merge"
    /\ UNCHANGED <<fit_config, sections, data, params, clusters, stage, idx, profVars, modelVars, plotVars>>

(* lines 49-50 *)
MergeNothing(ps, cp) == ps
Merge(ps, cp) == Update(ps, cp)

ClusterMerge ==
    /\ pc = "merge"
    /\ params' = Merge(params, clusters[idx].cparams)
    /\ calls' = Append(calls, [op |-> "merge", scope |-> "cluster", stage |-> stage,
                               idx |-> idx, data |-> clusters[idx].data,
                               names |-> DOMAIN clusters[idx].cparams])
    /\ idx' = idx + 1
    /\ pc' = IF idx + 1 > Len(clusters) THEN "joint" ELSE "local"
    /\ UNCHANGED <<fit_config, sections, data, heap, clusters, stage, profVars, modelVars, plotVars>>

(* lines 57-60, and the step of the loop of line 25 *)
JointMinimize ==
    /\ pc = "joint"
    /\ heap' = Minimize(params, heap)
    /\ calls' = Append(calls, [op |-> "minimize", scope |-> "joint", stage |-> stage,
                               idx |-> 0, data |-> [i \in 1..Len(data) |-> i],
                               names |-> DOMAIN params])
    /\ stage' = stage + 1
    /\ pc' = IF stage + 1 > Len(sections) THEN "return" ELSE "stage"
    /\ UNCHANGED <<fit_config, sections, data, params, clusters, idx, profVars, modelVars, plotVars>>

(* line 65 *)
Return ==
    /\ pc = "return"
    /\ pc' = "done"
    /\ UNCHANGED <<fit_config, sections, data, params, heap, clusters, stage, idx, calls, profVars, modelVars, plotVars>>

InitFit ==
    /\ fit_config \in Plans
    /\ sections = <<>>
    /\ data \in SeqsUpTo(ProfileMaps, MaxProfiles) \ {<<>>}
    /\ params = [n \in Names |-> NameIndex(n)]
    /\ heap \in [1..Len(NameSeq) -> [value : {0}, vary : BOOLEAN]]
    /\ clusters = <<>>
    /\ pc = "start"
    /\ stage = 0
    /\ idx = 0
    /\ calls = <<>>
    /\ ProfileIdle
    /\ ModelIdle
    /\ PlotIdle

NextFit == ReadConfig \/ BeginStage \/ ClusterMinimize \/ ClusterMerge \/ JointMinimize \/ Return

SpecFit == InitFit /\ [][NextFit]_vars

-----------------------------------------------------------------------------
(* Profile (3st_fast.py).  Populations are in units of 1/1000, frequencies *)
(* in Hz (angular frequencies divided by 2 pi), shifts in ppm.             *)

MaxPoints == 3

(* line 64: lru_cache(5) *)
CacheSize == 5

(* line 157: 1.0e+04 *)
RefOffset == 10000

(* measured offsets and plotting grids *)
Offsets == {-20000, 0, 50, 100, 20000}
AltGrids == {<<-30000, 25, 30000>>}
FilterWidths == {0, 100}

(* lines 98-112: create_default_parameters, by short name *)
DefaultKey ==
    [pb |-> 50, pc |-> 50, kex_ab |-> 200, kex_bc |-> 200, kex_ac |-> 0,
     cs_i_a |-> 0, dw_i_ab |-> 0, dw_i_ac |-> 0, lambda_i_a |-> 10,
     dlambda_i_ab |-> 0, dlambda_i_ac |-> 0, rho_i_a |-> 1]

(* lines 192-195: the values calculate_profile reads from params *)
ParamPoints ==
    {DefaultKey,
     [DefaultKey EXCEPT !.kex_ab = 0],
     [DefaultKey EXCEPT !.cs_i_a = 1]}

Abs(x) == IF x < 0 THEN -x ELSE x

IncreasingSeqs(S, n) ==
    {q \in SeqsUpTo(S, n) : q # <<>> /\ \A i \in 1..(Len(q) - 1) : q[i] < q[i + 1]}

(* line 151, first row: magz_eq[0, 0] *)
EquilibriumA(key) ==
    [liouvillian |-> FALSE, magz |-> 1000 - key.pb - key.pc, args |-> <<>>]

(* lines 163-184: the Liouvillian is built and diagonalized and magz_eq is *)
(* propagated; the result is kept as a term over everything it reads      *)
Propagated(key, off) ==
    LET omega_i_a == (key.cs_i_a - carrier) * ppm_to_hz - off
    IN [liouvillian |-> TRUE, magz |-> 1000 - key.pb - key.pc,
        args |-> <<key.pb, key.pc, key.kex_ab, key.kex_bc, key.kex_ac,
                   key.lambda_i_a, key.rho_i_a, omega_i_a,
                   key.lambda_i_a + key.dlambda_i_ab, omega_i_a + key.dw_i_ab * ppm_to_hz,
                   key.lambda_i_a + key.dlambda_i_ac, omega_i_a + key.dw_i_ac * ppm_to_hz>>]

(* line 157 *)
IsReferenceBothSides(b1_offset) == Abs(b1_offset) >= RefOffset
IsReference(b1_offset) == b1_offset <= -RefOffset

(* lines 143-188 *)
_calculate_profile(key, offs) ==
    [i \in 1..Len(offs) |->
        IF IsReference(offs[i]) THEN EquilibriumA(key) ELSE Propagated(key, offs[i])]

(* line 64: the memoized _calculate_profile, keyed by the parameter values *)
CachedCall(key) ==
    LET hit == {i \in 1..Len(cache) : cache[i].key = key}
    IN  IF hit # {}
        THEN LET i == CHOOSE j \in hit : TRUE
             IN [curve |-> cache[i].curve, computed |-> FALSE,
                 cache |-> Append(SelectSeq(cache, LAMBDA e : e.key # key), cache[i])]
        ELSE LET curve == _calculate_profile(key, b1_offsets)
                 room == IF Len(cache) >= CacheSize THEN Tail(cache) ELSE cache
             IN [curve |-> curve, computed |-> TRUE,
                 cache |-> Append(room, [key |-> key, curve |-> curve])]

(* numpy combines arrays of equal length, or of length one with any other *)
BroadcastOk(n, m) == n = m \/ n = 1 \/ m = 1

(* lines 207-214 *)
_calculate_scale(cal) ==
    [ok |-> BroadcastOk(Len(cal), Len(val)), cal |-> cal, val |-> val, err |-> err]

Stored == [offsets |-> b1_offsets, val |-> val, err |-> err]

(* lines 190-205 with b1_offsets=None *)
calculate_profile(key) ==
    /\ status = "ok"
    /\ LET r == CachedCall(key)
           scale == _calculate_scale(r.curve)
       IN /\ cache' = r.cache
          /\ status' = IF scale.ok THEN "ok" ELSE "aborted"
          /\ last' = [op |-> "calculate_profile", key |-> key, alt |-> <<>>, pre |-> Stored,
                      repeat |-> FALSE, removed_before |-> 0, computed |-> r.computed, core |-> r.curve,
                      values |-> IF scale.ok THEN r.curve ELSE <<>>,
                      scale |-> scale, raised |-> ~scale.ok]
    /\ UNCHANGED <<b1_offsets, val, err, on_resonance_filter, carrier, ppm_to_hz, fitVars, modelVars, plotVars>>

(* line 203 *)
KeepAlternate(b1_orig, alt) == alt
RestoreOffsets(b1_orig, alt) == b1_orig

(* lines 190-205 with alternate offsets, returning normally *)
calculate_profile_alt(key, alt) ==
    /\ status = "ok"
    /\ LET r == CachedCall(key)
           scale == _calculate_scale(r.curve)
       IN /\ cache' = r.cache
          /\ status' = IF scale.ok THEN "ok" ELSE "aborted"
          /\ b1_offsets' = IF scale.ok THEN RestoreOffsets(b1_offsets, alt) ELSE b1_offsets
          /\ last' = [op |-> "calculate_profile", key |-> key, alt |-> alt, pre |-> Stored,
                      repeat |-> FALSE, removed_before |-> 0, computed |-> r.computed, core |-> r.curve,
                      values |-> IF scale.ok THEN _calculate_profile(key, alt) ELSE <<>>,
                      scale |-> scale, raised |-> ~scale.ok]
    /\ UNCHANGED <<val, err, on_resonance_filter, carrier, ppm_to_hz, fitVars, modelVars, plotVars>>

(* lines 200-202 when the uncached prediction raises (linalg.eig or        *)
(* linalg.inv on a degenerate matrix): line 203 is not reached             *)
calculate_profile_alt_raises(key, alt) ==
    /\ status = "ok"
    /\ \E i \in 1..Len(alt) : ~IsReference(alt[i])
    /\ LET r == CachedCall(key)
           scale == _calculate_scale(r.curve)
       IN /\ scale.ok
          /\ cache' = r.cache
          /\ status' = "aborted"
          /\ b1_offsets' = alt
          /\ last' = [op |-> "calculate_profile", key |-> key, alt |-> alt, pre |-> Stored,
                      repeat |-> FALSE, removed_before |-> 0, computed |-> r.computed, core |-> r.curve,
                      values |-> <<>>, scale |-> scale, raised |-> TRUE]
    /\ UNCHANGED <<val, err, on_resonance_filter, carrier, ppm_to_hz, fitVars, modelVars, plotVars>>

(* lines 239-242 *)
NuOffset(cs, b1_offset) == (cs - carrier) * ppm_to_hz - b1_offset

(* line 244: abs(nu_offsets) > self.on_resonance_filter * 0.5 *)
KeepAtBoundary(cs, b1_offset) == 2 * Abs(NuOffset(cs, b1_offset)) >= on_resonance_filter
Keep(cs, b1_offset) == 2 * Abs(NuOffset(cs, b1_offset)) > on_resonance_filter

MaskShifted(cs) ==
    [i \in 1..Len(b1_offsets) |->
        IF i < Len(b1_offsets) THEN Keep(cs, b1_offsets[i + 1]) ELSE TRUE]
Mask(cs) == [i \in 1..Len(b1_offsets) |-> Keep(cs, b1_offsets[i])]

(* lines 246-248: boolean-mask indexing *)
ApplyMask(s, mask) ==
    LET kept == {i \in (1..Len(s)) \cap DOMAIN mask : mask[i]}
        nth(k) == CHOOSE i \in kept : Cardinality({j \in kept : j <= i}) = k
    IN [k \in 1..Cardinality(kept) |-> s[nth(k)]]

(* the call repeats the preceding one: filter_points with the same cs_i_a *)
FilterRepeats(key) == last.op = "filter_points" /\ last.key.cs_i_a = key.cs_i_a

(* lines 232-248 *)
filter_points(key) ==
    /\ status = "ok"
    /\ LET mask == Mask(key.cs_i_a)
       IN /\ b1_offsets' = ApplyMask(b1_offsets, mask)
          /\ val' = ApplyMask(val, mask)
          /\ err' = ApplyMask(err, mask)
    /\ last' = [op |-> "filter_points", key |-> key, alt |-> <<>>, pre |-> Stored,
                repeat |-> FilterRepeats(key),
                removed_before |-> IF FilterRepeats(key)
                                   THEN Len(last.pre.offsets) - Len(b1_offsets) ELSE 0,
                computed |-> FALSE, core |-> <<>>, values |-> <<>>, scale |-> <<>>,
                raised |-> FALSE]
    /\ UNCHANGED <<on_resonance_filter, carrier, ppm_to_hz, cache, status, fitVars, modelVars, plotVars>>

(* lines 48-64: a profile as constructed from its measurements *)
InitProfile ==
    /\ b1_offsets \in IncreasingSeqs(Offsets, MaxPoints)
    /\ val = [i \in 1..Len(b1_offsets) |-> i]
    /\ err = [i \in 1..Len(b1_offsets) |-> i]
    /\ on_resonance_filter \in FilterWidths
    /\ carrier = 0
    /\ ppm_to_hz = 100
    /\ cache = <<>>
    /\ status = "ok"
    /\ last = NoCall
    /\ FitIdle
    /\ ModelIdle
    /\ PlotIdle

NextProfile ==
    \/ \E key \in ParamPoints : calculate_profile(key)
    \/ \E key \in ParamPoints, alt \in AltGrids : calculate_profile_alt(key, alt)
    \/ \E key \in ParamPoints, alt \in AltGrids : calculate_profile_alt_raises(key, alt)
    \/ \E key \in ParamPoints : filter_points(key)

SpecProfile == InitProfile /\ [][NextProfile]_vars

-----------------------------------------------------------------------------
(* Exchange-model parameter builders (exchange_model.py, two- and          *)
(* three-state).  Parameter values are exact rationals <<n, d>>, d > 0;    *)
(* <<0, 0>> is the outcome of an expression that divides by zero.          *)

RECURSIVE Gcd(_, _)
Gcd(a, b) == IF b = 0 THEN a ELSE Gcd(b, a % b)

Undefined == <<0, 0>>

Norm(n, d) ==
    IF d = 0 THEN Undefined
    ELSE LET g == Gcd(Abs(n), Abs(d))
             sgn == IF d < 0 THEN -1 ELSE 1
         IN <<(sgn * n) \div g, (sgn * d) \div g>>

Rat(n) == <<n, 1>>
IsDefined(x) == x[2] # 0
RAdd(x, y) == IF IsDefined(x) /\ IsDefined(y) THEN Norm(x[1] * y[2] + y[1] * x[2], x[2] * y[2]) ELSE Undefined
RSub(x, y) == IF IsDefined(x) /\ IsDefined(y) THEN Norm(x[1] * y[2] - y[1] * x[2], x[2] * y[2]) ELSE Undefined
RMul(x, y) == IF IsDefined(x) /\ IsDefined(y) THEN Norm(x[1] * y[1], x[2] * y[2]) ELSE Undefined
RDiv(x, y) == IF IsDefined(x) /\ IsDefined(y) THEN Norm(x[1] * y[2], x[2] * y[1]) ELSE Undefined

(* exp(n ln 2) *)
Pow2(n) == IF n >= 0 THEN <<2 ^ n, 1>> ELSE <<1, 2 ^ (-n)>>

(* parameters.ParameterName(name, **ctx).to_full_name(): a key made of the *)
(* short symbol and its context                                            *)
FullName(name, ctx) == <<name>> \o ctx

NoBound == <<>>
NoExpr == [formula |-> "none", T |-> 0, p_total |-> 0, l_total |-> 0]
Expr(formula, T, pt, lt) == [formula |-> formula, T |-> T, p_total |-> pt, l_total |-> lt]

(* one tuple of add_many: Name, Value, Vary, Min, Max, Expr *)
Parameter(value, vary, min, max, expr) ==
    [value |-> value, vary |-> vary, min |-> min, max |-> max, expr |-> expr]

Models3 == {"3st.pb_kex", "3st.temperature"}
Models2 == {"2st.pb_kex", "2st.eyring", "2st.temperature", "2st.kab_kd", "2st.kon_koff"}
Keywords == Models2 \cup Models3 \cup {"None", "pb_kex"}
Temps == {20, 25}
Concentrations == {1, 3}

(* dict.update / add_many: new entries are added, existing ones replaced *)
AddMany(ps, entries) == Update(ps, entries)

(* three_state/exchange_model.py lines 18-22 *)
EffectiveModel3(model) == IF model \notin Models3 THEN "3st.pb_kex" ELSE model

(* three_state/exchange_model.py lines 77-89 *)
Names3Temperature ==
    [n \in {"T0", "pb0", "pc0", "kexAB0", "kexBC0", "kexAC0",
            "dH_AB", "dH_AC", "dH_TSAB", "dH_TSBC", "dH_TSAC"} |-> FullName(n, <<>>)]

(* three_state/exchange_model.py lines 122-139 *)
Params3Temperature(mn, T) ==
    [k \in {mn[n] : n \in {"T0", "pb0", "pc0", "kexAB0", "kexBC0", "kexAC0", "dH_AB", "dH_AC",
                           "dH_TSAB", "dH_TSBC", "dH_TSAC",
                           "pb", "pc", "kex_ab", "kex_bc", "kex_ac"}} |->
        CASE k = mn["T0"]      -> Parameter(Rat(25), "False", NoBound, NoBound, NoExpr)
          [] k = mn["pb0"]     -> Parameter(<<1, 20>>, "True", Rat(0), Rat(1), NoExpr)
          [] k = mn["pc0"]     -> Parameter(<<1, 20>>, "True", Rat(0), Rat(1), NoExpr)
          [] k = mn["kexAB0"]  -> Parameter(Rat(100), "True", Rat(0), NoBound, NoExpr)
          [] k = mn["kexBC0"]  -> Parameter(Rat(100), "True", Rat(0), NoBound, NoExpr)
          [] k = mn["kexAC0"]  -> Parameter(Rat(0), "False", Rat(0), NoBound, NoExpr)
          [] k = mn["dH_AB"]   -> Parameter(Rat(0), "True", Rat(-200), Rat(200), NoExpr)
          [] k = mn["dH_AC"]   -> Parameter(Rat(0), "True", Rat(-200), Rat(200), NoExpr)
          [] k = mn["dH_TSAB"] -> Parameter(Rat(10), "True", Rat(0), Rat(200), NoExpr)
          [] k = mn["dH_TSBC"] -> Parameter(Rat(10), "True", Rat(0), Rat(200), NoExpr)
          [] k = mn["dH_TSAC"] -> Parameter(Rat(10), "False", Rat(0), Rat(200), NoExpr)
          [] k = mn["pb"]      -> Parameter(Rat(0), "None", Rat(0), Rat(1), Expr("3st.temperature.pb", T, 0, 0))
          [] k = mn["pc"]      -> Parameter(Rat(0), "None", Rat(0), Rat(1), Expr("3st.temperature.pc", T, 0, 0))
          [] k = mn["kex_ab"]  -> Parameter(Rat(0), "None", Rat(0), NoBound, Expr("3st.temperature.kex_ab", T, 0, 0))
          [] k = mn["kex_bc"]  -> Parameter(Rat(0), "None", Rat(0), NoBound, Expr("3st.temperature.kex_bc", T, 0, 0))
          [] k = mn["kex_ac"]  -> Parameter(Rat(0), "None", Rat(0), NoBound, Expr("3st.temperature.kex_ac", T, 0, 0))]

(* three_state/exchange_model.py lines 9-141 *)
update_params_3st(ps, mn, model, T, pt, lt) ==
    LET eff == EffectiveModel3(model)
        warn == model \notin Models3
    IN  IF eff = "3st.pb_kex"
        THEN [map_names |-> mn, params |-> ps, warned |-> warn, raised |-> FALSE]
        ELSE LET mn1 == Update(mn, Names3Temperature)
             IN [map_names |-> mn1, params |-> AddMany(ps, Params3Temperature(mn1, T)),
                 warned |-> warn, raised |-> FALSE]

(* two_state/exchange_model.py lines 26-30 *)
EffectiveModel2(model) == IF model \notin Models2 THEN "2st.pb_kex" ELSE model

(* two_state/exchange_model.py lines 36-41, 93-99, 124-128, 151-156 *)
Names2(model, T, pt, lt) ==
    CASE model = "2st.eyring" ->
            [n \in {"dh_b", "ds_b", "dh_ab", "ds_ab"} |-> FullName(n, <<>>)]
      [] model = "2st.temperature" ->
            [n \in {"T0", "pb0", "kex0", "dH_AB", "dH_ATS"} |-> FullName(n, <<>>)]
      [] model = "2st.kab_kd" ->
            [n \in {"kab", "kd_ab", "l_free"} |->
                IF n = "l_free" THEN FullName(n, <<T, pt, lt>>) ELSE FullName(n, <<T>>)]
      [] model = "2st.kon_koff" ->
            [n \in {"kon", "koff", "kd", "l_free"} |->
                IF n = "l_free" THEN FullName(n, <<T, pt, lt>>) ELSE FullName(n, <<T>>)]

(* two_state/exchange_model.py lines 54-60, 140-145, 169-175 *)
Params2(model, mn, T, pt, lt) ==
    CASE model = "2st.eyring" ->
            [k \in {mn[n] : n \in {"dh_b", "ds_b", "dh_ab", "ds_ab", "pb", "kex_ab"}} |->
                CASE k = mn["dh_b"]   -> Parameter(Rat(6500), "True", NoBound, NoBound, NoExpr)
                  [] k = mn["ds_b"]   -> Parameter(Rat(0), "False", NoBound, NoBound, NoExpr)
                  [] k = mn["dh_ab"]  -> Parameter(Rat(65000), "True", NoBound, NoBound, NoExpr)
                  [] k = mn["ds_ab"]  -> Parameter(Rat(0), "False", NoBound, NoBound, NoExpr)
                  [] k = mn["pb"]     -> Parameter(Rat(0), "None", Rat(0), Rat(1), Expr("2st.eyring.pb", T, 0, 0))
                  [] k = mn["kex_ab"] -> Parameter(Rat(0), "None", Rat(0), NoBound, Expr("2st.eyring.kex_ab", T, 0, 0))]
      [] model = "2st.kab_kd" ->
            [k \in {mn[n] : n \in {"kd_ab", "kab", "l_free", "pb", "kex_ab"}} |->
                CASE k = mn["kd_ab"]  -> Parameter(Rat(100), "True", Rat(0), NoBound, NoExpr)
                  [] k = mn["kab"]    -> Parameter(Rat(1000000000), "True", Rat(0), NoBound, NoExpr)
                  [] k = mn["l_free"] -> Parameter(Rat(0), "None", Rat(0), NoBound, Expr("2st.kab_kd.l_free", 0, pt, lt))
                  [] k = mn["pb"]     -> Parameter(<<1, 20>>, "None", Rat(0), Rat(1), Expr("2st.kab_kd.pb", 0, pt, lt))
                  [] k = mn["kex_ab"] -> Parameter(Rat(200), "None", Rat(0), NoBound, Expr("2st.kab_kd.kex", 0, pt, lt))]
      [] model = "2st.kon_koff" ->
            [k \in {mn[n] : n \in {"kon", "koff", "kd", "l_free", "pb", "kex_ab"}} |->
                CASE k = mn["kon"]    -> Parameter(Rat(1000000000), "True", Rat(0), NoBound, NoExpr)
                  [] k = mn["koff"]   -> Parameter(Rat(100), "True", Rat(0), NoBound, NoExpr)
                  [] k = mn["kd"]     -> Parameter(Rat(0), "None", Rat(0), NoBound, Expr("2st.kon_koff.kd", 0, 0, 0))
                  [] k = mn["l_free"] -> Parameter(Rat(0), "None", Rat(0), NoBound, Expr("2st.kon_koff.l_free", 0, pt, lt))
                  [] k = mn["pb"]     -> Parameter(<<1, 20>>, "None", Rat(0), Rat(1), Expr("2st.kon_koff.pb", 0, pt, lt))
                  [] k = mn["kex_ab"] -> Parameter(Rat(200), "None", Rat(0), NoBound, Expr("2st.kon_koff.kex", 0, pt, lt))]

(* two_state/exchange_model.py lines 9-177, branch by branch.  The         *)
(* 2st.temperature branch updates map_names (lines 93-99); its expression  *)
(* strings (lines 103-109) are malformed, so it never reaches add_many.    *)
update_params_2st(ps, mn, model, T, pt, lt) ==
    LET eff == EffectiveModel2(model)
        warn == model \notin Models2
    IN  CASE eff = "2st.pb_kex" ->
                [map_names |-> mn, params |-> ps, warned |-> warn, raised |-> FALSE]
          [] eff = "2st.temperature" ->
                [map_names |-> Update(mn, Names2(eff, T, pt, lt)), params |-> ps,
                 warned |-> warn, raised |-> TRUE]
          [] OTHER ->
                LET mn1 == Update(mn, Names2(eff, T, pt, lt))
                IN [map_names |-> mn1, params |-> AddMany(ps, Params2(eff, mn1, T, pt, lt)),
                    warned |-> warn, raised |-> FALSE]

(* Whether the builder's module compiles.  two_state/exchange_model.py     *)
(* lines 104-105 and 108-109 are not Python (".format(" opened twice), so  *)
(* loading the two-state module is a SyntaxError and no call of its        *)
(* update_params ever executes.                                            *)
Compiles(b) == b = "3st"

update_params(b, ps, mn, model, T, pt, lt) ==
    IF ~Compiles(b)
    THEN [map_names |-> mn, params |-> ps, warned |-> FALSE, raised |-> TRUE]
    ELSE IF b = "3st" THEN update_params_3st(ps, mn, model, T, pt, lt)
    ELSE update_params_2st(ps, mn, model, T, pt, lt)

(* a call of update_params by the code that builds a profile *)
UpdateParams ==
    /\ bpc = "new"
    /\ \E model \in Keywords, T \in Temps, pt \in Concentrations, lt \in Concentrations :
          LET r == update_params(builder, bparams, map_names, model, T, pt, lt)
          IN /\ call' = [model |-> model, temperature |-> T, p_total |-> pt, l_total |-> lt]
             /\ bparams' = r.params
             /\ map_names' = r.map_names
             /\ warned' = r.warned
             /\ bpc' = IF r.raised THEN "raised" ELSE "returned"
    /\ UNCHANGED <<builder, params0, map_names0, fitVars, profVars, plotVars>>

-----------------------------------------------------------------------------
(* The expressions of the 3st.temperature model, as lmfit evaluates them.  *)
(* Enthalpies are counted in the unit that makes                           *)
(* dH/R * |1/(T+273.15) - 1/(T0+273.15)| = ln 2 for the two temperatures   *)
(* of Temps, so that every exponential is a power of two.                  *)

One == Rat(1)

(* the sign of 1/(T+273.15) - 1/(T0+273.15) *)
InvTStep(T, T0) == IF T < T0 THEN 1 ELSE IF T > T0 THEN -1 ELSE 0

(* exp(-{dH}/{R} * (1.0/({T}+273.15) - 1.0/({T0}+273.15))) *)
ExpMinus(dH, T, T0) == Pow2(-dH * InvTStep(T, T0))
(* exp({dH}/{R} * (1.0/({T}+273.15) - 1/({T0}+273.15))) *)
ExpPlus(dH, T, T0) == Pow2(dH * InvTStep(T, T0))

(* v: the values of the reference parameters, by short name *)
(* lines 93-94 *)
KAB(v, T) == RMul(RDiv(v.pb0, RSub(RSub(One, v.pb0), v.pc0)), ExpMinus(v.dH_AB, T, v.T0))
KAC(v, T) == RMul(RDiv(v.pc0, RSub(RSub(One, v.pb0), v.pc0)), ExpMinus(v.dH_AC, T, v.T0))

(* lines 95-99 *)
Expr_pb(v, T) == RDiv(KAB(v, T), RAdd(RAdd(One, KAB(v, T)), KAC(v, T)))

(* lines 101-105 *)
Expr_pc(v, T) == RDiv(KAC(v, T), RAdd(RAdd(One, KAB(v, T)), KAC(v, T)))

(* lines 107-110 *)
Expr_kex_ab_slip(v, T) ==
    RMul(RMul(v.kexAB0, ExpMinus(v.dH_TSAB, T, v.T0)),
         RAdd(RDiv(v.pb0, RSub(One, v.pc0)),
              RMul(RDiv(RSub(RSub(One, v.pb0), v.pc0), RSub(One, v.pb0)),
                   ExpPlus(v.dH_AB, T, v.T0))))
Expr_kex_ab(v, T) ==
    RMul(RMul(v.kexAB0, ExpMinus(v.dH_TSAB, T, v.T0)),
         RAdd(RDiv(v.pb0, RSub(One, v.pc0)),
              RMul(RDiv(RSub(RSub(One, v.pb0), v.pc0), RSub(One, v.pc0)),
                   ExpPlus(v.dH_AB, T, v.T0))))

(* lines 112-115 *)
Expr_kex_bc(v, T) ==
    RMul(RMul(v.kexBC0, ExpMinus(v.dH_TSBC, T, v.T0)),
         RAdd(RMul(RDiv(v.pc0, RAdd(v.pb0, v.pc0)), ExpPlus(v.dH_AB, T, v.T0)),
              RMul(RDiv(v.pb0, RAdd(v.pb0, v.pc0)), ExpPlus(v.dH_AC, T, v.T0))))

(* lines 117-120 *)
Expr_kex_ac(v, T) ==
    RMul(RMul(v.kexAC0, ExpMinus(v.dH_TSAC, T, v.T0)),
         RAdd(RDiv(v.pc0, RSub(One, v.pb0)),
              RMul(RDiv(RSub(RSub(One, v.pb0), v.pc0), RSub(One, v.pb0)),
                   ExpPlus(v.dH_AC, T, v.T0))))

(* values the reference parameters can take within their registered bounds *)
Populations == {Rat(0), <<1, 4>>, <<1, 2>>, Rat(1)}
Rates == {Rat(0), Rat(100)}
Enthalpies == {-1, 0, 1}
ActivationEnthalpies == {0, 1}

ReferenceValues ==
    [T0 : Temps, pb0 : Populations, pc0 : Populations,
     kexAB0 : Rates, kexBC0 : Rates, kexAC0 : Rates,
     dH_AB : Enthalpies, dH_AC : Enthalpies,
     dH_TSAB : ActivationEnthalpies, dH_TSBC : ActivationEnthalpies,
     dH_TSAC : ActivationEnthalpies]

ReferenceNames == {"pb0", "pc0", "kexAB0", "kexBC0", "kexAC0"}
EnthalpyNames == {"T0", "dH_AB", "dH_AC", "dH_TSAB", "dH_TSBC", "dH_TSAC"}

(* the value of the parameter registered under short name n *)
ValueOf(n) == bparams[map_names[n]].value

(* the reference parameters receive values (from the fit or the user) and  *)
(* the derived parameters of lines 134-138 are evaluated from them         *)
EvaluateExpressions ==
    /\ bpc = "returned"
    /\ builder = "3st"
    /\ call.model = "3st.temperature"
    /\ \E v \in ReferenceValues :
          LET T == call.temperature
              new(n) ==
                  CASE n \in ReferenceNames -> v[n]
                    [] n \in EnthalpyNames -> Rat(v[n])
                    [] n = "pb" -> Expr_pb(v, T)
                    [] n = "pc" -> Expr_pc(v, T)
                    [] n = "kex_ab" -> Expr_kex_ab(v, T)
                    [] n = "kex_bc" -> Expr_kex_bc(v, T)
                    [] n = "kex_ac" -> Expr_kex_ac(v, T)
              assigned == ReferenceNames \cup EnthalpyNames
                              \cup {"pb", "pc", "kex_ab", "kex_bc", "kex_ac"}
          IN bparams' = [k \in DOMAIN bparams |->
                            IF \E n \in assigned : map_names[n] = k
                            THEN [bparams[k] EXCEPT
                                    !.value = new(CHOOSE n \in assigned : map_names[n] = k)]
                            ELSE bparams[k]]
    /\ bpc' = "evaluated"
    /\ UNCHANGED <<builder, call, params0, map_names0, map_names, warned, fitVars, profVars, plotVars>>

-----------------------------------------------------------------------------
(* The expression text of the two-state module.  The module does not load  *)
(* (Compiles), so no program run evaluates these expressions; the actions  *)
(* below carry out a branch as its text reads, from the state the failed   *)
(* call leaves, so that the formulas themselves can be examined.           *)

(* sets the values of the parameters registered under the short names of   *)
(* vals                                                                    *)
Assign(ps, mn, vals) ==
    [k \in DOMAIN ps |->
        IF \E n \in DOMAIN vals : mn[n] = k
        THEN [ps[k] EXCEPT !.value = vals[CHOOSE n \in DOMAIN vals : mn[n] = k]]
        ELSE ps[k]]

(* two_state/exchange_model.py lines 103-105; the field {pB0} is read as   *)
(* the reference population pb0                                            *)
K2AB(v, T) == RMul(RDiv(v.pb0, RAdd(One, v.pb0)), ExpMinus(v.dH_AB, T, v.T0))
Expr2_pb(v, T) == RDiv(K2AB(v, T), RAdd(One, K2AB(v, T)))

(* two_state/exchange_model.py lines 107-109 *)
Expr2_kex_ab(v, T) ==
    RMul(RMul(v.kex0, ExpMinus(v.dH_ATS, T, v.T0)),
         RAdd(v.pb0, RMul(RSub(One, v.pb0), ExpPlus(v.dH_AB, T, v.T0))))

(* two_state/exchange_model.py lines 111-118 *)
Params2Temperature(mn, T) ==
    [k \in {mn[n] : n \in {"T0", "pb0", "kex0", "dH_AB", "dH_ATS", "pb", "kex_ab"}} |->
        CASE k = mn["T0"]     -> Parameter(Rat(25), "False", NoBound, NoBound, NoExpr)
          [] k = mn["pb0"]    -> Parameter(<<1, 20>>, "True", Rat(0), Rat(1), NoExpr)
          [] k = mn["kex0"]   -> Parameter(Rat(100), "True", Rat(0), NoBound, NoExpr)
          [] k = mn["dH_AB"]  -> Parameter(Rat(0), "True", NoBound, NoBound, NoExpr)
          [] k = mn["dH_ATS"] -> Parameter(Rat(10), "True", Rat(0), NoBound, NoExpr)
          [] k = mn["pb"]     -> Parameter(Rat(0), "None", Rat(0), Rat(1), Expr("2st.temperature.pb", T, 0, 0))
          [] k = mn["kex_ab"] -> Parameter(Rat(0), "None", Rat(0), NoBound, Expr("2st.temperature.kex_ab", T, 0, 0))]

ReferenceValues2 ==
    [T0 : Temps, pb0 : Populations, kex0 : Rates,
     dH_AB : Enthalpies, dH_ATS : ActivationEnthalpies]

(* the 2st.temperature branch as written (lines 93-118), with values for   *)
(* its reference parameters and its two expressions evaluated from them    *)
EvaluateTemperature2 ==
    /\ bpc = "raised"
    /\ builder = "2st"
    /\ call.model = "2st.temperature"
    /\ \E v \in ReferenceValues2 :
          LET T == call.temperature
              mn1 == Update(map_names, Names2("2st.temperature", T, call.p_total, call.l_total))
              vals == [n \in {"T0", "pb0", "kex0", "dH_AB", "dH_ATS", "pb", "kex_ab"} |->
                          CASE n \in {"pb0", "kex0"} -> v[n]
                            [] n \in {"T0", "dH_AB", "dH_ATS"} -> Rat(v[n])
                            [] n = "pb" -> Expr2_pb(v, T)
                            [] n = "kex_ab" -> Expr2_kex_ab(v, T)]
          IN /\ map_names' = mn1
             /\ bparams' = Assign(AddMany(bparams, Params2Temperature(mn1, T)), mn1, vals)
    /\ bpc' = "formula"
    /\ UNCHANGED <<builder, call, params0, map_names0, warned, fitVars, profVars, plotVars>>

(* x ** 0.5 where it is rational; the evaluations below draw values whose  *)
(* square root is                                                          *)
ISqrt(n) == IF \E r \in 0..n : r * r = n THEN CHOOSE r \in 0..n : r * r = n ELSE -1

RSqrt(x) ==
    IF IsDefined(x) /\ x[1] >= 0 /\ ISqrt(x[1]) >= 0 /\ ISqrt(x[2]) >= 0
    THEN <<ISqrt(x[1]), ISqrt(x[2])>> ELSE Undefined

RLeq(x, y) == x[1] * y[2] <= y[1] * x[2]

(* ({l_total} - {p_total} - {kd}) ** 2 + 4.0 * {kd} * {l_total} *)
Discriminant(kd, pt, lt) ==
    LET d == RSub(RSub(Rat(lt), Rat(pt)), kd)
    IN RAdd(RMul(d, d), RMul(RMul(Rat(4), kd), Rat(lt)))

(* two_state/exchange_model.py lines 130-133 and 160-162 *)
Expr_l_free_minus(kd, pt, lt) ==
    RMul(<<1, 2>>, RSub(RSub(RSub(Rat(lt), Rat(pt)), kd), RSqrt(Discriminant(kd, pt, lt))))
Expr_l_free(kd, pt, lt) ==
    RMul(<<1, 2>>, RAdd(RSub(RSub(Rat(lt), Rat(pt)), kd), RSqrt(Discriminant(kd, pt, lt))))

(* lines 137-138 and 166-167 *)
Expr_pb_bound(l_free, pt, lt) == RDiv(RSub(Rat(lt), l_free), Rat(pt))

(* line 135 *)
Expr_kex_kab_kd(l_free, kd, kab) == RMul(RAdd(l_free, kd), kab)

(* line 158 *)
Expr_kd(koff, kon) == RDiv(koff, kon)

(* line 164 *)
Expr_kex_kon_koff(l_free, kon, koff) == RAdd(RMul(l_free, kon), koff)

DissociationConstants == {Rat(0), Rat(1), Rat(2), Rat(4)}
OnRates == {Rat(1), Rat(2)}
OffRates == {Rat(0), Rat(2), Rat(4), Rat(8)}

(* the 2st.kab_kd branch as written (lines 121-145), with values for kd_ab *)
(* and kab and its three expressions evaluated from them                   *)
EvaluateKabKd ==
    /\ bpc = "raised"
    /\ builder = "2st"
    /\ call.model = "2st.kab_kd"
    /\ \E kd \in DissociationConstants, kab \in OnRates :
          LET T == call.temperature
              pt == call.p_total
              lt == call.l_total
              mn1 == Update(map_names, Names2("2st.kab_kd", T, pt, lt))
              l_free == Expr_l_free(kd, pt, lt)
              vals == [n \in {"kd_ab", "kab", "l_free", "pb", "kex_ab"} |->
                          CASE n = "kd_ab" -> kd
                            [] n = "kab" -> kab
                            [] n = "l_free" -> l_free
                            [] n = "pb" -> Expr_pb_bound(l_free, pt, lt)
                            [] n = "kex_ab" -> Expr_kex_kab_kd(l_free, kd, kab)]
          IN /\ IsDefined(RSqrt(Discriminant(kd, pt, lt)))
             /\ map_names' = mn1
             /\ bparams' = Assign(AddMany(bparams, Params2("2st.kab_kd", mn1, T, pt, lt)), mn1, vals)
    /\ bpc' = "formula"
    /\ UNCHANGED <<builder, call, params0, map_names0, warned, fitVars, profVars, plotVars>>

(* the 2st.kon_koff branch as written (lines 148-175), with values for kon *)
(* and koff and its four expressions evaluated from them                   *)
EvaluateKonKoff ==
    /\ bpc = "raised"
    /\ builder = "2st"
    /\ call.model = "2st.kon_koff"
    /\ \E kon \in OnRates, koff \in OffRates :
          LET T == call.temperature
              pt == call.p_total
              lt == call.l_total
              mn1 == Update(map_names, Names2("2st.kon_koff", T, pt, lt))
              kd == Expr_kd(koff, kon)
              l_free == Expr_l_free(kd, pt, lt)
              vals == [n \in {"kon", "koff", "kd", "l_free", "pb", "kex_ab"} |->
                          CASE n = "kon" -> kon
                            [] n = "koff" -> koff
                            [] n = "kd" -> kd
                            [] n = "l_free" -> l_free
                            [] n = "pb" -> Expr_pb_bound(l_free, pt, lt)
                            [] n = "kex_ab" -> Expr_kex_kon_koff(l_free, kon, koff)]
          IN /\ IsDefined(RSqrt(Discriminant(kd, pt, lt)))
             /\ map_names' = mn1
             /\ bparams' = Assign(AddMany(bparams, Params2("2st.kon_koff", mn1, T, pt, lt)), mn1, vals)
    /\ bpc' = "formula"
    /\ UNCHANGED <<builder, call, params0, map_names0, warned, fitVars, profVars, plotVars>>

(* 3st_fast.py lines 79-112: the mapping and the collection of a profile   *)
(* at temperature T, as handed to the builder (exchange parameters and the *)
(* resonance position)                                                     *)
ProfileNames(b, T) ==
    [n \in (IF b = "3st" THEN {"pb", "pc", "kex_ab", "kex_bc", "kex_ac", "cs_i_a"}
            ELSE {"pb", "kex_ab", "cs_i_a"}) |->
        IF n = "cs_i_a" THEN FullName("cs_a", <<T, 15>>) ELSE FullName(n, <<T>>)]

ProfileParams(b, T) ==
    LET mn == ProfileNames(b, T)
    IN [k \in Range(mn) |->
           CASE k = mn["pb"] -> Parameter(<<1, 20>>, "True", Rat(0), Rat(1), NoExpr)
             [] k = mn["kex_ab"] -> Parameter(Rat(200), "True", Rat(0), NoBound, NoExpr)
             [] k = mn["cs_i_a"] -> Parameter(Rat(0), "False", NoBound, NoBound, NoExpr)
             [] b = "3st" /\ k = mn["pc"] -> Parameter(<<1, 20>>, "True", Rat(0), Rat(1), NoExpr)
             [] b = "3st" /\ k = mn["kex_bc"] -> Parameter(Rat(200), "True", Rat(0), NoBound, NoExpr)
             [] b = "3st" /\ k = mn["kex_ac"] -> Parameter(Rat(0), "False", Rat(0), NoBound, NoExpr)]

InitModel ==
    /\ builder \in {"2st", "3st"}
    /\ \E T \in Temps :
          /\ map_names0 = ProfileNames(builder, T)
          /\ params0 = ProfileParams(builder, T)
    /\ map_names = map_names0
    /\ bparams = params0
    /\ call = [model |-> "unset", temperature |-> 0, p_total |-> 0, l_total |-> 0]
    /\ warned = FALSE
    /\ bpc = "new"
    /\ FitIdle
    /\ ProfileIdle
    /\ PlotIdle

NextModel ==
    \/ UpdateParams
    \/ EvaluateExpressions
    \/ EvaluateTemperature2
    \/ EvaluateKabKd
    \/ EvaluateKonKoff

SpecModel == InitModel /\ [][NextModel]_vars

-----------------------------------------------------------------------------
(* experiments/cest/plotting.py: sigma_estimator and group_data *)

MaxSample == 4
MaxDataset == 3

SampleValues == {0, 1, 2, 10}
PeakNames == {"G1N-HN", "A2N-HN"}

(* np.median sorts its argument *)
RECURSIVE Sorted(_)
Sorted(s) ==
    IF s = <<>> THEN <<>>
    ELSE LET rest == Sorted(Tail(s))
             h == Head(s)
         IN SelectSeq(rest, LAMBDA v : v <= h) \o <<h>> \o SelectSeq(rest, LAMBDA v : v > h)

(* twice np.median(s): the middle value, or the mean of the two middle     *)
(* values of a sample of even size                                         *)
Median2(s) ==
    LET q == Sorted(s)
        n == Len(s)
    IN IF n % 2 = 1 THEN 2 * q[(n + 1) \div 2] ELSE q[n \div 2] + q[n \div 2 + 1]

(* line 21, inner: twice np.median(abs(xi - np.asarray(x))) *)
DeviationFromMedian2(x, i) == Abs(2 * x[i] - Median2(x))
InnerMedian2(x, i) == Median2([j \in 1..Len(x) |-> Abs(x[i] - x[j])])

(* line 21: 1.1926 *)
SigmaScale == <<11926, 10000>>

(* line 21 *)
SigmaOf(x) == RMul(Norm(Median2([i \in 1..Len(x) |-> InnerMedian2(x, i)]), 4), SigmaScale)

sigma_estimator ==
    /\ ppc = "new"
    /\ sigma' = SigmaOf(sample)
    /\ ppc' = "estimated"
    /\ UNCHANGED <<sample, dataset, data_grouped, fitVars, profVars, modelVars>>

(* peaks.Peak(name): the peak of an assignment; two peaks are the same key *)
(* when they are built from the same assignment                            *)
Peak(name) == [assignment |-> name]

(* the profile at position i of the dataset *)
ProfileAt(ds, i) == [profile_name |-> ds[i], position |-> i]

(* lines 37-40: one iteration *)
GroupStepKeepFirst(grouped, profile) ==
    IF Peak(profile.profile_name) \in DOMAIN grouped THEN grouped
    ELSE Update(grouped, [p \in {Peak(profile.profile_name)} |-> profile])
GroupStep(grouped, profile) ==
    Update(grouped, [p \in {Peak(profile.profile_name)} |-> profile])

RECURSIVE GroupLoop(_, _, _)
GroupLoop(ds, i, grouped) ==
    IF i > Len(ds) THEN grouped
    ELSE GroupLoop(ds, i + 1, GroupStep(grouped, ProfileAt(ds, i)))

(* lines 33-42 *)
group_data ==
    /\ ppc = "new"
    /\ data_grouped' = GroupLoop(dataset, 1, <<>>)
    /\ ppc' = "grouped"
    /\ UNCHANGED <<sample, sigma, dataset, fitVars, profVars, modelVars>>

InitPlot ==
    /\ sample \in SeqsUpTo(SampleValues, MaxSample) \ {<<>>}
    /\ sigma = <<0, 0>>
    /\ dataset \in SeqsUpTo(PeakNames, MaxDataset)
    /\ data_grouped = <<>>
    /\ ppc = "new"
    /\ FitIdle
    /\ ProfileIdle
    /\ ModelIdle

NextPlot == sigma_estimator \/ group_data

SpecPlot == InitPlot /\ [][NextPlot]_vars

-----------------------------------------------------------------------------
(* Properties of run_fit and find_independent_clusters *)

(* the state holds the clusters found for the current vary flags *)
Clustered == pc \in {"local", "merge", "joint"}

(* the log entries of stage s *)
StageCalls(s) == SelectSeq(calls, LAMBDA e : e.stage = s)

(* K cluster-local minimizations, each followed by its merge, in cluster order *)
LocalCalls(s) ==
    [k \in 1..(2 * Len(clusters)) |->
        LET i == (k + 1) \div 2
        IN [op |-> IF k % 2 = 1 THEN "minimize" ELSE "merge", scope |-> "cluster",
            stage |-> s, idx |-> i, data |-> clusters[i].data,
            names |-> DOMAIN clusters[i].cparams]]

JointCall(s) ==
    [op |-> "minimize", scope |-> "joint", stage |-> s, idx |-> 0,
     data |-> [i \in 1..Len(data) |-> i], names |-> Names]

(* C1: in every stage, K > 1 clusters give exactly K cluster-local         *)
(* minimizations in cluster order, each on its own profiles and parameters *)
(* and each merged into the global collection, and only then exactly one   *)
(* joint minimization over all the data and the whole collection; one      *)
(* cluster gives no cluster-local minimization and exactly one joint one.  *)
C1_LocalThenJoint ==
    /\ pc \in {"local", "merge"} => Len(clusters) > 1
    /\ (pc \in {"local", "joint"} /\ idx > 1) =>
          \A n \in DOMAIN clusters[idx - 1].cparams :
              params[n] = clusters[idx - 1].cparams[n]
    /\ pc = "joint" =>
          StageCalls(stage) = IF Len(clusters) > 1 THEN LocalCalls(stage) ELSE <<>>
    /\ (pc \in {"stage", "return", "done"} /\ stage > 1) =>
          StageCalls(stage - 1) =
              IF Len(clusters) > 1
              THEN LocalCalls(stage - 1) \o <<JointCall(stage - 1)>>
              ELSE <<JointCall(stage - 1)>>

C1_Witness ==
    /\ pc = "done"
    /\ Len(clusters) = 3
    /\ Len(StageCalls(1)) = 7
    /\ StageCalls(1)[7].scope = "joint"

(* the stage the plan configures at position s, and the plan's length *)
PlanStage(s) == IF fit_config = <<>> THEN <<>> ELSE fit_config[s]
PlanLen == IF fit_config = <<>> THEN 1 ELSE Len(fit_config)

(* the stages of the joint minimizations done so far, in order *)
JointStages ==
    LET joint == SelectSeq(calls, LAMBDA e : e.op = "minimize" /\ e.scope = "joint")
    IN [k \in 1..Len(joint) |-> joint[k].stage]

(* the profiles of each cluster *)
ClusterData(cl) == [j \in 1..Len(cl) |-> cl[j].data]

(* C14: run_fit executes the configured sections, each exactly once and in *)
(* configured order, a stage's overrides being applied to the shared       *)
(* collection before that stage's clustering and minimizations; a plan     *)
(* without sections gives exactly one stage with no override, and the      *)
(* collection passed in is the one returned.                               *)
C14_StagesFollowPlan ==
    /\ pc \notin {"start", "idle"} =>
          /\ Len(sections) = PlanLen
          /\ \A s \in 1..PlanLen : sections[s] = PlanStage(s)
    /\ Clustered =>
          /\ stage \in 1..PlanLen
          /\ JointStages = [k \in 1..(stage - 1) |-> k]
          /\ \A n \in DOMAIN PlanStage(stage) : heap[params[n]].vary = PlanStage(stage)[n]
    /\ (pc \in {"local", "joint"} /\ idx = 1) =>
          ClusterData(clusters) = ClusterData(find_independent_clusters(params, heap).clusters)
    /\ pc \in {"stage", "return", "done"} => JointStages = [k \in 1..(stage - 1) |-> k]
    /\ pc \in {"return", "done"} =>
          /\ stage - 1 = PlanLen
          /\ DOMAIN params = Names
          /\ fit_config = <<>> => \A n \in Names : heap[params[n]].vary = heap[NameIndex(n)].vary

C14_Witness ==
    /\ pc = "done"
    /\ Len(fit_config) = 2
    /\ fit_config[1] # fit_config[2]
    /\ JointStages = <<1, 2>>
    /\ Len(clusters) > 1

(* C15: in a stage with more than one cluster, a cluster-local             *)
(* minimization modifies no parameter object of the global collection,     *)
(* whichever profile of the cluster the parameter comes from, and the      *)
(* global collection is written only by the merge that follows that        *)
(* cluster's own minimization.                                             *)
C15_ClusterMinimizePrivate ==
    [][/\ (pc = "local" /\ pc' = "merge") =>
              \A n \in Names : heap'[params[n]] = heap[params[n]]
       /\ params' # params =>
              /\ pc = "merge"
              /\ calls[Len(calls)].op = "minimize"
              /\ calls[Len(calls)].scope = "cluster"
              /\ calls[Len(calls)].idx = idx
              /\ calls[Len(calls)].stage = stage]_vars

(* the places (cluster, position) at which profile i is held *)
PlacesOf(i) ==
    {jk \in (1..Len(clusters)) \X (1..MaxProfiles + 1) :
        jk[2] <= Len(clusters[jk[1]].data) /\ clusters[jk[1]].data[jk[2]] = i}

(* C18: the clusters partition the dataset: every profile is in exactly    *)
(* one cluster, exactly once; no cluster is empty; the profiles of a       *)
(* cluster are in dataset order; and a cluster's parameter set contains    *)
(* every parameter named by the map_names of each profile it holds.        *)
C18_ClustersPartition ==
    Clustered =>
        /\ \A i \in 1..Len(data) : Cardinality(PlacesOf(i)) = 1
        /\ \A j \in 1..Len(clusters) :
              /\ clusters[j].data # <<>>
              /\ \A k \in 1..Len(clusters[j].data) : clusters[j].data[k] \in 1..Len(data)
              /\ \A k \in 1..(Len(clusters[j].data) - 1) :
                    clusters[j].data[k] < clusters[j].data[k + 1]
              /\ \A k \in 1..Len(clusters[j].data) :
                    data[clusters[j].data[k]] \subseteq DOMAIN clusters[j].cparams

C18_Witness ==
    /\ Clustered
    /\ Len(data) = 3
    /\ Len(clusters) = 2
    /\ clusters[1].data = <<1, 3>>
    /\ clusters[2].data = <<2>>
    /\ Cardinality(DOMAIN clusters[1].cparams) = 3

(* C2: the returned clusters are pairwise disjoint in their varying        *)
(* parameters: no varying parameter is in the sets of two clusters.        *)
C2_ClustersDisjoint ==
    Clustered =>
        \A i, j \in 1..Len(clusters) :
            i # j => FitNames(clusters[i].cparams, heap)
                         \cap FitNames(clusters[j].cparams, heap) = {}

(* the varying parameters of profile i *)
ProfileFit(i) == {n \in data[i] : heap[params[n]].vary}

PairwiseDisjointFit ==
    \A i, j \in 1..Len(data) : i # j => ProfileFit(i) \cap ProfileFit(j) = {}

CommonFit == \E n \in Names : \A i \in 1..Len(data) : n \in ProfileFit(i)

(* C3: N profiles with pairwise disjoint sets of varying parameters give N *)
(* clusters of one profile each; N profiles with one common varying        *)
(* parameter give exactly one cluster holding all N profiles.              *)
C3_SingletonsOrOne ==
    Clustered =>
        /\ PairwiseDisjointFit =>
              /\ Len(clusters) = Len(data)
              /\ \A i \in 1..Len(data) : clusters[i].data = <<i>>
        /\ CommonFit =>
              /\ Len(clusters) = 1
              /\ clusters[1].data = [i \in 1..Len(data) |-> i]

C3_Witness ==
    /\ Clustered
    /\ Len(data) = 3
    /\ PairwiseDisjointFit
    /\ \E i \in 1..3 : ProfileFit(i) = {}
    /\ \E i \in 1..3 : ProfileFit(i) # {}
    /\ Len(clusters) = 3

-----------------------------------------------------------------------------
(* Properties of Profile *)

CalledPlain == last.op = "calculate_profile" /\ last.alt = <<>> /\ ~last.raised
CalledAlt == last.op = "calculate_profile" /\ last.alt # <<>> /\ ~last.raised
Filtered == last.op = "filter_points"

(* C4: the core prediction is exactly 1 - pb - pc at every stored offset   *)
(* of magnitude above 10,000 Hz, positive or negative, and the Liouvillian *)
(* is not built there.                                                     *)
C4_ReferenceEquilibrium ==
    (last.op = "calculate_profile" /\ last.computed) =>
        \A i \in 1..Len(last.pre.offsets) :
            Abs(last.pre.offsets[i]) > RefOffset => last.core[i] = EquilibriumA(last.key)

Removed(i) == last.pre.offsets[i] \notin Range(b1_offsets)

(* twice the magnitude of the offset from resonance of point i before the call *)
TwiceNu(i) == 2 * Abs(NuOffset(last.key.cs_i_a, last.pre.offsets[i]))

(* the stored arrays are the points left, in order and still aligned *)
AlignedSubsequence ==
    /\ Len(val) = Len(b1_offsets)
    /\ Len(err) = Len(b1_offsets)
    /\ \A k \in 1..Len(b1_offsets) :
          \E i \in 1..Len(last.pre.offsets) :
              /\ b1_offsets[k] = last.pre.offsets[i]
              /\ val[k] = last.pre.val[i]
              /\ err[k] = last.pre.err[i]
    /\ \A k \in 1..(Len(b1_offsets) - 1) : b1_offsets[k] < b1_offsets[k + 1]

(* C6 as stated: filter_points removes a point if and only if the          *)
(* magnitude of its offset from resonance is strictly smaller than half    *)
(* the filter width (so width 0 removes nothing).                          *)
C6_RemovesStrictlyInside ==
    Filtered =>
        \A i \in 1..Len(last.pre.offsets) : Removed(i) <=> TwiceNu(i) < on_resonance_filter

(* C6 amended: filter_points removes a point if and only if the magnitude  *)
(* of its offset from resonance is smaller than or equal to half the       *)
(* filter width; with width 0 exactly the points on resonance are removed. *)
C6_RemovesWithinHalfWidth ==
    Filtered =>
        /\ \A i \in 1..Len(last.pre.offsets) :
              Removed(i) <=> TwiceNu(i) <= on_resonance_filter
        /\ AlignedSubsequence

C6_Witness ==
    /\ Filtered
    /\ on_resonance_filter = 0
    /\ \E i \in 1..Len(last.pre.offsets) : Removed(i) /\ TwiceNu(i) = 0
    /\ \E i \in 1..Len(last.pre.offsets) : ~Removed(i)

(* C7: filter_points applied twice in a row with the same params leaves    *)
(* offsets, values and errors as the first application left them.          *)
C7_FilterIdempotent ==
    (Filtered /\ last.repeat) => Stored = last.pre

C7_Witness ==
    /\ Filtered
    /\ last.repeat
    /\ last.removed_before > 0
    /\ Len(b1_offsets) > 0

(* C17: calculate_profile without alternate offsets returns one predicted  *)
(* value per currently stored point, computed for the currently stored     *)
(* offsets, also when the same parameter values were evaluated and         *)
(* memoized before filter_points removed points.                           *)
C17_CurveMatchesStoredPoints ==
    (last.op = "calculate_profile" /\ last.alt = <<>>) =>
        /\ ~last.raised
        /\ Len(last.values) = Len(b1_offsets)
        /\ last.values = _calculate_profile(last.key, b1_offsets)

(* C19: when a call with alternate offsets fails in the prediction on the  *)
(* alternate offsets, the stored offsets are afterwards still the measured *)
(* offsets, not the alternate grid.                                        *)
C19_FailureRestoresOffsets ==
    (last.op = "calculate_profile" /\ last.alt # <<>> /\ last.raised) =>
        b1_offsets = last.pre.offsets

-----------------------------------------------------------------------------
(* Properties of the exchange-model parameter builders *)

Direct(b) == IF b = "3st" THEN "3st.pb_kex" ELSE "2st.pb_kex"
Recognized(b) == IF b = "3st" THEN Models3 ELSE Models2
Called == bpc \in {"returned", "raised"}

(* what a call with the direct keyword gives from the same caller state *)
DirectResult ==
    update_params(builder, params0, map_names0, Direct(builder),
                  call.temperature, call.p_total, call.l_total)

(* C8: in both builders a call of update_params with a model keyword       *)
(* outside the builder's recognized set does not raise, emits the warning, *)
(* and returns the mapping and the collection that a call with the direct  *)
(* keyword returns.                                                        *)
C8_UnknownKeywordIsDirect ==
    (Called /\ call.model \notin Recognized(builder)) =>
        /\ bpc = "returned"
        /\ warned
        /\ ~DirectResult.raised
        /\ map_names = DirectResult.map_names
        /\ bparams = DirectResult.params

(* C9: in both builders a call of update_params with the direct keyword    *)
(* returns the caller's collection and mapping with no entry added,        *)
(* removed or changed, for every temperature, p_total and l_total.         *)
C9_DirectIsNoOp ==
    (Called /\ call.model = Direct(builder)) =>
        /\ bpc = "returned"
        /\ bparams = params0
        /\ map_names = map_names0

AtReference == bpc = "evaluated" /\ ValueOf("T0") = Rat(call.temperature)

(* C10 as stated: at T = T0 the five derived parameters of the three-state *)
(* temperature model equal their reference values, for all reference       *)
(* values within the registered bounds and all enthalpies.                 *)
C10_IdentityAtT0 ==
    AtReference =>
        /\ ValueOf("pb") = ValueOf("pb0")
        /\ ValueOf("pc") = ValueOf("pc0")
        /\ ValueOf("kex_ab") = ValueOf("kexAB0")
        /\ ValueOf("kex_bc") = ValueOf("kexBC0")
        /\ ValueOf("kex_ac") = ValueOf("kexAC0")

(* C10 amended: at T = T0 each derived parameter equals its reference      *)
(* value wherever its expression has no zero denominator: pB and pC when   *)
(* pb0 + pc0 # 1, kex_AB when pc0 # 1, kex_BC when pb0 + pc0 # 0, kex_AC   *)
(* when pb0 # 1; at the excluded points the expression divides by zero and *)
(* has no value.                                                           *)
C10_IdentityAtT0WhereDefined ==
    AtReference =>
        LET pb0 == ValueOf("pb0")
            pc0 == ValueOf("pc0")
        IN /\ IF RAdd(pb0, pc0) # One
              THEN ValueOf("pb") = pb0 /\ ValueOf("pc") = pc0
              ELSE ~IsDefined(ValueOf("pb")) /\ ~IsDefined(ValueOf("pc"))
           /\ IF pc0 # One
              THEN ValueOf("kex_ab") = ValueOf("kexAB0")
              ELSE ~IsDefined(ValueOf("kex_ab"))
           /\ IF RAdd(pb0, pc0) # Rat(0)
              THEN ValueOf("kex_bc") = ValueOf("kexBC0")
              ELSE ~IsDefined(ValueOf("kex_bc"))
           /\ IF pb0 # One
              THEN ValueOf("kex_ac") = ValueOf("kexAC0")
              ELSE ~IsDefined(ValueOf("kex_ac"))

C10_Witness ==
    /\ AtReference
    /\ ValueOf("pb0") = <<1, 4>>
    /\ ValueOf("pc0") = <<1, 2>>
    /\ ValueOf("dH_AB") = Rat(1)
    /\ ValueOf("dH_TSAB") = Rat(1)
    /\ ValueOf("kexAB0") = Rat(100)
    /\ ValueOf("pb") = <<1, 4>>
    /\ ValueOf("kex_ab") = Rat(100)

AtReference2 ==
    /\ bpc = "formula"
    /\ call.model = "2st.temperature"
    /\ ValueOf("T0") = Rat(call.temperature)

(* C11: the formula of the two-state temperature branch is the identity at *)
(* the reference temperature: when T equals T0 the derived pB equals pb0   *)
(* and the derived kex_AB equals kex0, for every pb0 in [0,1] and every    *)
(* kex0 >= 0.                                                              *)
C11_IdentityAtT0TwoState ==
    AtReference2 =>
        /\ ValueOf("pb") = ValueOf("pb0")
        /\ ValueOf("kex_ab") = ValueOf("kex0")

BindingEvaluated == bpc = "formula" /\ call.model \in {"2st.kab_kd", "2st.kon_koff"}

MinTotal == IF call.l_total <= call.p_total THEN call.l_total ELSE call.p_total

MassBalance ==
    RAdd(RMul(ValueOf("pb"), Rat(call.p_total)), ValueOf("l_free")) = Rat(call.l_total)

-----------------------------------------------------------------------------
(* Properties of the plotting helpers *)

(* v is the k-th smallest value of s *)
IsKth(s, k, v) ==
    /\ v \in Range(s)
    /\ Cardinality({i \in 1..Len(s) : s[i] < v}) < k
    /\ k <= Cardinality({i \in 1..Len(s) : s[i] <= v})

(* twice the median of s, by rank *)
TwiceMedian(s) ==
    LET n == Len(s)
        lo == CHOOSE v \in Range(s) : IsKth(s, (n + 1) \div 2, v)
        hi == CHOOSE v \in Range(s) : IsKth(s, n \div 2 + 1, v)
    IN lo + hi

(* four times the median absolute deviation from the sample median *)
Mad4(x) == TwiceMedian([i \in 1..Len(x) |-> Abs(2 * x[i] - TwiceMedian(x))])

(* four times the median over i of the median over j of |x_i - x_j| *)
PairwiseMedian4(x) ==
    TwiceMedian([i \in 1..Len(x) |-> TwiceMedian([j \in 1..Len(x) |-> Abs(x[i] - x[j])])])

Estimated == ppc = "estimated"

(* C13 as stated: for every non-empty sample, sigma_estimator returns the  *)
(* median absolute deviation from the sample median, times 1.1926.         *)
C13_SigmaIsScaledMad ==
    Estimated => sigma = Norm(Mad4(sample) * 11926, 40000)

(* C13 amended: for every non-empty sample, sigma_estimator returns the    *)
(* median over i of the median over j of |x_i - x_j|, times 1.1926; this   *)
(* is the scaled median absolute deviation for samples of up to three      *)
(* values.                                                                 *)
C13_SigmaIsScaledPairwiseMedian ==
    Estimated =>
        /\ sigma = Norm(PairwiseMedian4(sample) * 11926, 40000)
        /\ Len(sample) <= 3 => sigma = Norm(Mad4(sample) * 11926, 40000)

C13_Witness ==
    /\ Estimated
    /\ sample = <<10, 0, 2, 1>>
    /\ sigma = <<17889, 10000>>

Grouped == ppc = "grouped"

(* the last position of the dataset whose profile maps to peak p *)
LastOf(p) ==
    CHOOSE i \in 1..Len(dataset) :
        /\ Peak(dataset[i]) = p
        /\ \A j \in 1..Len(dataset) : Peak(dataset[j]) = p => j <= i

(* C16: group_data returns exactly one entry per distinct peak of the      *)
(* dataset, and the profile stored for a peak is the last profile in       *)
(* dataset order that maps to it; earlier profiles of the same peak are    *)
(* not in the result.                                                      *)
C16_GroupKeepsLast ==
    Grouped =>
        /\ DOMAIN data_grouped = {Peak(dataset[i]) : i \in 1..Len(dataset)}
        /\ \A p \in DOMAIN data_grouped : data_grouped[p] = ProfileAt(dataset, LastOf(p))
        /\ \A i \in 1..Len(dataset) :
              (\E j \in (i + 1)..Len(dataset) : Peak(dataset[j]) = Peak(dataset[i]))
                  => ProfileAt(dataset, i) \notin Range(data_grouped)

C16_Witness ==
    /\ Grouped
    /\ dataset = <<"G1N-HN", "A2N-HN", "G1N-HN">>
    /\ Cardinality(DOMAIN data_grouped) = 2
    /\ data_grouped[Peak("G1N-HN")].position = 3
    /\ data_grouped[Peak("A2N-HN")].position = 2

====
